---------------------------- MODULE Spec2Model ----------------------------
(***************************************************************************)
(* Completion validation and reward pipeline of the treasure-hunt backend. *)
(*                                                                         *)
(* Part I   text of the judge's reply as a sequence of characters, and the *)
(*          tail of AIService.validate_photo that turns it into a value    *)
(*          (services/ai_service.py).                                      *)
(* Part II  the request-scoped database session (db/base.py), the rows of  *)
(*          db/models.py, register_child (routes/children.py) and the      *)
(*          submission pipeline of section 4.3 of the design.              *)
(***************************************************************************)
EXTENDS Integers, Sequences, FiniteSets, TLC

(***************************************************************************)
(* Part I.  Python str operations used by validate_photo.  A str is a      *)
(* sequence of one-character strings; Python indices are 0-based, the      *)
(* sequences here 1-based.                                                 *)
(***************************************************************************)

Min(a, b) == IF a < b THEN a ELSE b
Max(a, b) == IF a > b THEN a ELSE b

\* s[i:i+len(lit)] == lit, for a 1-based i
StartsWithAt(s, i, lit) ==
    /\ i >= 1
    /\ i + Len(lit) - 1 <= Len(s)
    /\ SubSeq(s, i, i + Len(lit) - 1) = lit

\* str.startswith
startswith(s, prefix) == StartsWithAt(s, 1, prefix)

\* 1-based position of the first occurrence of sub at or after i, 0 if none
RECURSIVE FindFrom(_, _, _)
FindFrom(s, sub, i) ==
    IF i + Len(sub) - 1 > Len(s) THEN 0
    ELSE IF StartsWithAt(s, i, sub) THEN i
    ELSE FindFrom(s, sub, i + 1)

\* str.find: 0-based index, -1 if absent
find(s, sub) == FindFrom(s, sub, 1) - 1

\* sub in s
contains(s, sub) == FindFrom(s, sub, 1) # 0

\* s[:n] for n >= 0
SliceTo(s, n) == SubSeq(s, 1, Min(n, Len(s)))

\* s[k:] ; a negative k counts from the end, as Python does
SliceFrom(s, k) ==
    IF k >= 0 THEN SubSeq(s, k + 1, Len(s))
    ELSE SubSeq(s, Max(Len(s) + k, 0) + 1, Len(s))

\* str.split(sep): the list of parts
RECURSIVE split(_, _)
split(s, sep) ==
    LET k == FindFrom(s, sep, 1)
    IN  IF k = 0 THEN <<s>>
        ELSE <<SubSeq(s, 1, k - 1)>> \o split(SubSeq(s, k + Len(sep), Len(s)), sep)

\* whitespace characters of the model's alphabet
Ws == {" ", "\n"}

RECURSIVE lstrip(_)
lstrip(s) == IF s # <<>> /\ Head(s) \in Ws THEN lstrip(Tail(s)) ELSE s

RECURSIVE rstrip(_)
rstrip(s) ==
    IF s # <<>> /\ s[Len(s)] \in Ws THEN rstrip(SubSeq(s, 1, Len(s) - 1)) ELSE s

\* str.strip()
strip(s) == rstrip(lstrip(s))

(***************************************************************************)
(* json.loads on the alphabet of the model: objects, strings without       *)
(* escapes, the literals true / false / null and unsigned integers.  A     *)
(* value is a record of one shape: t is its type, b / n / s / m carry a    *)
(* bool, an int, a str, and the (key, value) items of a dict.              *)
(***************************************************************************)

NoneVal    == [t |-> "null", b |-> FALSE, n |-> 0, s |-> <<>>, m |-> <<>>]
BoolVal(x) == [t |-> "bool", b |-> x,     n |-> 0, s |-> <<>>, m |-> <<>>]
IntVal(x)  == [t |-> "int",  b |-> FALSE, n |-> x, s |-> <<>>, m |-> <<>>]
StrVal(x)  == [t |-> "str",  b |-> FALSE, n |-> 0, s |-> x,    m |-> <<>>]
DictVal(x) == [t |-> "dict", b |-> FALSE, n |-> 0, s |-> <<>>, m |-> x]

Digits == {"0", "1", "2", "3", "4", "5", "6", "7", "8", "9"}

DigitValue(c) ==
    CASE c = "0" -> 0 [] c = "1" -> 1 [] c = "2" -> 2 [] c = "3" -> 3
      [] c = "4" -> 4 [] c = "5" -> 5 [] c = "6" -> 6 [] c = "7" -> 7
      [] c = "8" -> 8 [] OTHER -> 9

\* a failed scan, and a scan that read value v and stopped before position j
ScanFail     == [ok |-> FALSE, val |-> NoneVal, next |-> 0]
ScanOk(v, j) == [ok |-> TRUE,  val |-> v,       next |-> j]

\* dict[key] = v: a repeated key keeps its place and takes the last value
RECURSIVE DictSet(_, _, _)
DictSet(items, key, v) ==
    IF items = <<>> THEN << [k |-> key, v |-> v] >>
    ELSE IF Head(items).k = key THEN << [k |-> key, v |-> v] >> \o Tail(items)
    ELSE << Head(items) >> \o DictSet(Tail(items), key, v)

RECURSIVE SkipWs(_, _)
SkipWs(s, i) == IF i <= Len(s) /\ s[i] \in Ws THEN SkipWs(s, i + 1) ELSE i

\* s[i] is the opening quote; the string ends at the next quote, and a
\* control character inside it is an error (strict mode)
ScanString(s, i) ==
    LET j == FindFrom(s, <<"\"">>, i + 1)
    IN  IF j = 0 THEN ScanFail
        ELSE LET body == SubSeq(s, i + 1, j - 1)
             IN  IF \E p \in 1..Len(body) : body[p] = "\n" THEN ScanFail
                 ELSE ScanOk(StrVal(body), j + 1)

RECURSIVE ScanDigits(_, _, _)
ScanDigits(s, i, acc) ==
    IF i <= Len(s) /\ s[i] \in Digits
    THEN ScanDigits(s, i + 1, 10 * acc + DigitValue(s[i]))
    ELSE ScanOk(IntVal(acc), i)

\* an integer: 0, or a digit 1-9 followed by digits
ScanNumber(s, i) ==
    IF s[i] = "0" THEN ScanOk(IntVal(0), i + 1) ELSE ScanDigits(s, i, 0)

RECURSIVE ScanValue(_, _)
RECURSIVE ScanMembers(_, _, _)

\* i is the position after "{" (or after ",") and whitespace
ScanMembers(s, i, items) ==
    IF i > Len(s) THEN ScanFail
    ELSE IF s[i] = "}" /\ items = <<>> THEN ScanOk(DictVal(items), i + 1)
    ELSE IF s[i] # "\"" THEN ScanFail
    ELSE
      LET key == ScanString(s, i)
      IN  IF ~key.ok THEN ScanFail
          ELSE
            LET c == SkipWs(s, key.next)
            IN  IF c > Len(s) \/ s[c] # ":" THEN ScanFail
                ELSE
                  LET v == ScanValue(s, SkipWs(s, c + 1))
                  IN  IF ~v.ok THEN ScanFail
                      ELSE
                        LET e    == SkipWs(s, v.next)
                            more == DictSet(items, key.val.s, v.val)
                        IN  IF e > Len(s) THEN ScanFail
                            ELSE IF s[e] = "}" THEN ScanOk(DictVal(more), e + 1)
                            ELSE IF s[e] = ","
                                 THEN LET k2 == SkipWs(s, e + 1)
                                      IN  IF k2 > Len(s) \/ s[k2] # "\""
                                          THEN ScanFail
                                          ELSE ScanMembers(s, k2, more)
                            ELSE ScanFail

ScanValue(s, i) ==
    IF i > Len(s) THEN ScanFail
    ELSE IF s[i] = "{" THEN ScanMembers(s, SkipWs(s, i + 1), <<>>)
    ELSE IF s[i] = "\"" THEN ScanString(s, i)
    ELSE IF StartsWithAt(s, i, <<"t", "r", "u", "e">>)
         THEN ScanOk(BoolVal(TRUE), i + 4)
    ELSE IF StartsWithAt(s, i, <<"f", "a", "l", "s", "e">>)
         THEN ScanOk(BoolVal(FALSE), i + 5)
    ELSE IF StartsWithAt(s, i, <<"n", "u", "l", "l">>)
         THEN ScanOk(NoneVal, i + 4)
    ELSE IF s[i] \in Digits THEN ScanNumber(s, i)
    ELSE ScanFail

\* the exception classes validate_photo can raise, and what it hands back
Returned(v) == [kind |-> "return", exc |-> "",  val |-> v]
Raised(e)   == [kind |-> "raise",  exc |-> e,   val |-> NoneVal]

\* json.loads(s): one value between optional whitespace, nothing after it
json_loads_error_generic == "ValueError"
json_loads_error == "JSONDecodeError"

json_loads(s) ==
    LET r == ScanValue(s, SkipWs(s, 1))
    IN  IF r.ok /\ SkipWs(s, r.next) = Len(s) + 1
        THEN Returned(r.val)
        ELSE Raised(json_loads_error)

(***************************************************************************)
(* The texts the model is run on.  A reply of the judge is one body, bare, *)
(* or wrapped in a fenced block with or without a language tag, or         *)
(* preceded by prose.                                                      *)
(***************************************************************************)

\* the backtick character (a one-character str, like the others; the
\* lexer of TLA+ takes no backtick inside a string, hence the name)
Backtick == "BACKTICK"

\* the fence of a code block: three backticks
Fence == <<Backtick, Backtick, Backtick>>

\* a line break
NL == <<"\n">>

\* json
TagJson == <<"j", "s", "o", "n">>

\* JSON
TagUpper == <<"J", "S", "O", "N">>

\* javascript
TagJavascript == <<"j", "a", "v", "a", "s", "c", "r", "i", "p", "t">>

\* Sure! (and a space)
ProseSure == <<"S", "u", "r", "e", "!", " ">>

\* Result: (and a space)
ProseResult == <<"R", "e", "s", "u", "l", "t", ":", " ">>

\* valid
KeyValid == <<"v", "a", "l", "i", "d">>

\* reasoning
KeyReasoning == <<"r", "e", "a", "s", "o", "n", "i", "n", "g">>

\* ok
TextOk == <<"o", "k">>

\* no fountain visible
TextNoFountain ==
    <<"n", "o", " ", "f", "o", "u", "n", "t", "a", "i", "n", " ", "v",
    "i", "s", "i", "b", "l", "e">>

\* {"valid": true, "reasoning": "ok"}
ObjTrueOk ==
    <<"{", "\"", "v", "a", "l", "i", "d", "\"", ":", " ", "t", "r", "u",
    "e", ",", " ", "\"", "r", "e", "a", "s", "o", "n", "i", "n", "g",
    "\"", ":", " ", "\"", "o", "k", "\"", "}">>

\* {"valid": false, "reasoning": "no fountain visible"}
ObjFalseFountain ==
    <<"{", "\"", "v", "a", "l", "i", "d", "\"", ":", " ", "f", "a", "l",
    "s", "e", ",", " ", "\"", "r", "e", "a", "s", "o", "n", "i", "n", "g",
    "\"", ":", " ", "\"", "n", "o", " ", "f", "o", "u", "n", "t", "a",
    "i", "n", " ", "v", "i", "s", "i", "b", "l", "e", "\"", "}">>

\* {"valid": true}
ObjTrueOnly ==
    <<"{", "\"", "v", "a", "l", "i", "d", "\"", ":", " ", "t", "r", "u",
    "e", "}">>

\* I cannot determine this.
ProseOnly ==
    <<"I", " ", "c", "a", "n", "n", "o", "t", " ", "d", "e", "t", "e",
    "r", "m", "i", "n", "e", " ", "t", "h", "i", "s", ".">>

\* {"reasoning": "ok"}
ObjNoValid ==
    <<"{", "\"", "r", "e", "a", "s", "o", "n", "i", "n", "g", "\"", ":",
    " ", "\"", "o", "k", "\"", "}">>

\* {"valid": "yes"}
ObjValidStr ==
    <<"{", "\"", "v", "a", "l", "i", "d", "\"", ":", " ", "\"", "y", "e",
    "s", "\"", "}">>

\* {"valid": 1}
ObjValidInt ==
    <<"{", "\"", "v", "a", "l", "i", "d", "\"", ":", " ", "1", "}">>

\* {"valid": null}
ObjValidNull ==
    <<"{", "\"", "v", "a", "l", "i", "d", "\"", ":", " ", "n", "u", "l",
    "l", "}">>

\* {"valid": true   (cut short)
ObjTruncated ==
    <<"{", "\"", "v", "a", "l", "i", "d", "\"", ":", " ", "t", "r", "u",
    "e">>

\* true
BareTrue == <<"t", "r", "u", "e">>


\* a verdict object as the prompt asks for it, with what it says
VerdictObjects ==
    { [text |-> ObjTrueOk,        valid |-> TRUE,  reasoning |-> TextOk],
      [text |-> ObjFalseFountain, valid |-> FALSE, reasoning |-> TextNoFountain],
      [text |-> ObjTrueOnly,      valid |-> TRUE,  reasoning |-> <<>>] }

\* bodies that are not JSON, or JSON without a boolean "valid"
NotJsonBodies  == {ProseOnly, ObjTruncated}
NoValidBodies  == {ObjNoValid, ObjValidStr, ObjValidInt, ObjValidNull, BareTrue}
MalformedBodies == NotJsonBodies \cup NoValidBodies

Bodies == {o.text : o \in VerdictObjects} \cup MalformedBodies

FenceTags == {<<>>, TagJson, TagUpper, TagJavascript}
Proses    == {ProseSure, ProseResult}

Fenced(tag, body) == Fence \o tag \o NL \o body \o NL \o Fence
Chatty(prose, body) == prose \o body

RawTexts ==
    Bodies
    \cup {Fenced(tag, b) : tag \in FenceTags, b \in Bodies}
    \cup {Chatty(p, b) : p \in Proses, b \in Bodies}

(***************************************************************************)
(* AIService.validate_photo.  client is AIService.client ("None" when no   *)
(* API key is configured); api is how chat.completions.create ended ("ok", *)
(* or the exception class it raised); content is the reply's text.         *)
(***************************************************************************)

Clients     == {"None", "Groq"}
ApiOutcomes == {"ok", "APIConnectionError", "APITimeoutError"}

\* the window of the text in which the tag "json" is looked for
TagWindow == 10

\* raised when no API key is configured
MissingCredentialError == "ValueError"

\* the classes an exception of class cls is an instance of
ExcBases(cls) ==
    CASE cls = "JSONDecodeError"    -> {"JSONDecodeError", "ValueError", "Exception"}
      [] cls = "ValueError"         -> {"ValueError", "Exception"}
      [] cls = "APITimeoutError"    -> {"APITimeoutError", "APIConnectionError",
                                        "APIError", "Exception"}
      [] cls = "APIConnectionError" -> {"APIConnectionError", "APIError", "Exception"}
      [] OTHER                      -> {cls, "Exception"}

IsInstance(cls, base) == base \in ExcBases(cls)

\* the text between the first two fences, and past a "json" tag to the "{"
StripFence(text) ==
    IF startswith(text, Fence)
    THEN LET inner == split(text, Fence)[2]
         IN  IF contains(SliceTo(inner, TagWindow), TagJson)
             THEN SliceFrom(inner, find(inner, <<"{">>))
             ELSE inner
    ELSE text

ParseReply(content) == json_loads(strip(StripFence(content)))

validate_photo_unchecked(c, api, content) ==
    IF api # "ok" THEN Raised(api) ELSE ParseReply(content)

validate_photo(c, api, content) ==
    IF c = "None" THEN Raised(MissingCredentialError)
    ELSE IF api # "ok" THEN Raised(api)
    ELSE ParseReply(content)

\* dict access
DictHas(v, key) == v.t = "dict" /\ \E i \in 1..Len(v.m) : v.m[i].k = key
DictGet(v, key) == v.m[CHOOSE i \in 1..Len(v.m) : v.m[i].k = key].v

(***************************************************************************)
(* The verdict of section 4.2 read off the value validate_photo returned,  *)
(* and what the pipeline of section 4.3 makes of the call's outcome.       *)
(***************************************************************************)

NoVerdict == [ok |-> FALSE, valid |-> FALSE, reasoning |-> <<>>]

VerdictOf(v) ==
    IF DictHas(v, KeyValid) /\ DictGet(v, KeyValid).t = "bool"
    THEN [ok        |-> TRUE,
          valid     |-> DictGet(v, KeyValid).b,
          reasoning |-> IF DictHas(v, KeyReasoning)
                           /\ DictGet(v, KeyReasoning).t = "str"
                        THEN DictGet(v, KeyReasoning).s
                        ELSE <<>>]
    ELSE NoVerdict

Classify(res) ==
    IF res.kind = "raise"
    THEN IF IsInstance(res.exc, "JSONDecodeError") THEN "MalformedVerdict"
         ELSE IF IsInstance(res.exc, "APITimeoutError") THEN "Timeout"
         ELSE "ServiceUnavailable"
    ELSE IF ~VerdictOf(res.val).ok THEN "MalformedVerdict"
         ELSE IF VerdictOf(res.val).valid THEN "Valid"
         ELSE "Invalid"

(***************************************************************************)
(* Part II.  The Domain Store and the requests.                            *)
(***************************************************************************)

NumRequests == 2
NumChildren == 2

Requests == 1..NumRequests
ChildIds == 1..NumChildren

\* the rows of the activities table
Activities  == << [tokens_reward |-> 2], [tokens_reward |-> 3] >>
ActivityIds == DOMAIN Activities

\* no row with that id, and the row register_child adds
NoChild  == [exists |-> FALSE, token_balance |-> 0]
NewChildWithBonus == [exists |-> TRUE, token_balance |-> 1]
NewChild == [exists |-> TRUE, token_balance |-> 0]

\* a new row of activity_completions, with the columns' defaults
NewCompletionCredited(c, a) ==
    [child_id |-> c, activity_id |-> a, validated |-> FALSE,
     validation_response |-> <<>>, tokens_awarded |-> 1]

NewCompletion(c, a) ==
    [child_id |-> c, activity_id |-> a, validated |-> FALSE,
     validation_response |-> <<>>, tokens_awarded |-> 0]

NoRow == NewCompletion(0, 0)

VARIABLES
    client,        \* AIService.client: "None" without an API key, else "Groq"
    children,      \* committed rows of children, by id
    completions,   \* committed rows of activity_completions; the id is the index
    pc,            \* where each submission request stands
    req,           \* its child_id and activity_id
    session,       \* its AsyncSession: open transaction, unflushed writes, the
                   \* Child as loaded
    comp,          \* the id of the completion it created, 0 before
    judge,         \* the judge's reply and what validate_photo made of it
    lock,          \* per child row, the request holding its row lock, 0 if free
    response,      \* what the caller got
    vp             \* one call of validate_photo, line by line

vars == <<client, children, completions, pc, req, session, comp, judge, lock,
          response, vp>>

pipelineVars == <<children, completions, pc, req, session, comp, judge, lock,
                  response>>

\* writes a session holds until it commits
InsertChild(id, row)      == [op |-> "insert_child", id |-> id, child |-> row, row |-> NoRow]
InsertCompletion(id, row) == [op |-> "insert_completion", id |-> id, child |-> NoChild, row |-> row]
UpdateCompletion(id, row) == [op |-> "update_completion", id |-> id, child |-> NoChild, row |-> row]
UpdateChild(id, row)      == [op |-> "update_child", id |-> id, child |-> row, row |-> NoRow]

ApplyWrite(db, w) ==
    CASE w.op = "insert_child"      -> [db EXCEPT !.children[w.id] = w.child]
      [] w.op = "update_child"      -> [db EXCEPT !.children[w.id] = w.child]
      [] w.op = "insert_completion" -> [db EXCEPT !.completions = Append(@, w.row)]
      [] OTHER                      -> [db EXCEPT !.completions[w.id] = w.row]

RECURSIVE ApplyWrites(_, _)
ApplyWrites(db, ws) ==
    IF ws = <<>> THEN db ELSE ApplyWrites(ApplyWrite(db, Head(ws)), Tail(ws))

NoSession == [in_txn |-> FALSE, writes |-> <<>>, child_balance |-> 0]

\* session.flush(): the writes go to the database and the transaction stays
\* open
session_flush(db, s) ==
    [db      |-> ApplyWrites(db, s.writes),
     session |-> [s EXCEPT !.in_txn = TRUE, !.writes = <<>>]]

\* session.commit()
session_commit(db, s) ==
    [db      |-> ApplyWrites(db, s.writes),
     session |-> [s EXCEPT !.in_txn = FALSE, !.writes = <<>>]]

\* session.rollback()
session_rollback(db, s) ==
    [db |-> db, session |-> [s EXCEPT !.in_txn = FALSE, !.writes = <<>>]]

\* get_async_session after the yield: commit when the handler returned,
\* rollback when it raised
get_async_session_exit(db, s, raised) ==
    IF raised THEN session_rollback(db, s) ELSE session_commit(db, s)

DB == [children |-> children, completions |-> completions]

NoJudge    == [content |-> <<>>, result |-> [kind |-> "none", exc |-> "", val |-> NoneVal]]
NoResponse == [state |-> "none", error |-> "", tokens_awarded |-> 0]
NoReq      == [child_id |-> 0, activity_id |-> 0]
VpIdle     == [pc |-> "idle", api |-> "ok", content |-> <<>>, text |-> <<>>,
               result |-> NoJudge.result]

\* the replies the pipeline is run on
JudgeReplies ==
    { Fenced(TagJson, ObjTrueOk), ObjFalseFountain, ProseOnly, ObjNoValid,
      ObjValidStr }

PipelineInit ==
    /\ children    = [c \in ChildIds |-> NoChild]
    /\ completions = <<>>
    /\ pc          = [r \in Requests |-> "idle"]
    /\ req         = [r \in Requests |-> NoReq]
    /\ session     = [r \in Requests |-> NoSession]
    /\ comp        = [r \in Requests |-> 0]
    /\ judge       = [r \in Requests |-> NoJudge]
    /\ lock        = [c \in ChildIds |-> 0]
    /\ response    = [r \in Requests |-> NoResponse]

Init ==
    /\ client \in Clients
    /\ PipelineInit
    /\ vp = VpIdle

\* the row of child c can be locked for update
RowLockIgnored(c) == TRUE

RowLockFree(c) == lock[c] = 0

\* the row locks request r holds are released when its transaction ends
Released(r) == [c \in ChildIds |-> IF lock[c] = r THEN 0 ELSE lock[c]]

\* POST /children/register, with the commit of get_async_session
register_child ==
    \E c \in ChildIds :
        /\ ~children[c].exists
        /\ \A d \in ChildIds : d < c => children[d].exists
        /\ LET s   == [NoSession EXCEPT !.in_txn = TRUE,
                                        !.writes = << InsertChild(c, NewChild) >>]
               out == get_async_session_exit(DB, s, FALSE)
           IN  /\ children' = out.db.children
               /\ completions' = out.db.completions
        /\ UNCHANGED <<client, pc, req, session, comp, judge, lock, response, vp>>

\* step 1: the session is opened and Child and Activity are looked up;
\* NotFound is raised through get_async_session
LoadRecords(r, c, a) ==
    /\ pc[r] = "idle"
    /\ IF children[c].exists /\ a \in ActivityIds
       THEN /\ pc' = [pc EXCEPT ![r] = "loaded"]
            /\ req' = [req EXCEPT ![r] = [child_id |-> c, activity_id |-> a]]
            /\ session' = [session EXCEPT ![r] =
                              [in_txn |-> TRUE, writes |-> <<>>,
                               child_balance |-> children[c].token_balance]]
            /\ UNCHANGED <<children, completions, response>>
       ELSE LET out == get_async_session_exit(
                           DB, [NoSession EXCEPT !.in_txn = TRUE], TRUE)
            IN  /\ pc' = [pc EXCEPT ![r] = "done"]
                /\ session' = [session EXCEPT ![r] = out.session]
                /\ children' = out.db.children
                /\ completions' = out.db.completions
                /\ response' = [response EXCEPT ![r] =
                                   [state |-> "error", error |-> "NotFound",
                                    tokens_awarded |-> 0]]
                /\ req' = req
    /\ UNCHANGED <<client, comp, judge, lock, vp>>

\* step 2: the completion is recorded, unvalidated, and outlives the request
CreateCompletion(r) ==
    /\ pc[r] = "loaded"
    /\ LET id  == Len(completions) + 1
           row == NewCompletion(req[r].child_id, req[r].activity_id)
           s   == [session[r] EXCEPT !.writes = Append(@, InsertCompletion(id, row))]
           out == session_commit(DB, s)
       IN  /\ children' = out.db.children
           /\ completions' = out.db.completions
           /\ session' = [session EXCEPT ![r] = out.session]
           /\ comp' = [comp EXCEPT ![r] = id]
    /\ pc' = [pc EXCEPT ![r] = "created"]
    /\ UNCHANGED <<client, req, judge, lock, response, vp>>

\* step 3: validate_photo is called ...
CallJudge(r) ==
    /\ pc[r] = "created"
    /\ pc' = [pc EXCEPT ![r] = "judging"]
    /\ UNCHANGED <<client, children, completions, req, session, comp, judge,
                   lock, response, vp>>

\* ... and returns or raises
JudgeReturns(r, api, content) ==
    /\ pc[r] = "judging"
    /\ LET res == validate_photo(client, api, content)
       IN  judge' = [judge EXCEPT ![r] =
                        [content |-> IF client = "None" \/ api # "ok"
                                     THEN <<>> ELSE content,
                         result  |-> res]]
    /\ pc' = [pc EXCEPT ![r] = "judged"]
    /\ UNCHANGED <<client, children, completions, req, session, comp, lock,
                   response, vp>>

\* step 4: ServiceUnavailable or Timeout: Failed, and the error is raised
\* through get_async_session
FailSubmission(r) ==
    /\ pc[r] = "judged"
    /\ Classify(judge[r].result) \in {"ServiceUnavailable", "Timeout"}
    /\ LET out == get_async_session_exit(DB, session[r], TRUE)
       IN  /\ children' = out.db.children
           /\ completions' = out.db.completions
           /\ session' = [session EXCEPT ![r] = out.session]
    /\ response' = [response EXCEPT ![r] =
                       [state |-> "Failed", error |-> Classify(judge[r].result),
                        tokens_awarded |-> 0]]
    /\ judge' = [judge EXCEPT ![r] = NoJudge]
    /\ lock' = Released(r)
    /\ req' = [req EXCEPT ![r] = NoReq]
    /\ pc' = [pc EXCEPT ![r] = "done"]
    /\ UNCHANGED <<client, comp, vp>>

\* steps 5 and 6: MalformedVerdict or valid = false: Rejected; the reasoning
\* is stored and the handler returns
RejectSubmission(r) ==
    /\ pc[r] = "judged"
    /\ Classify(judge[r].result) \in {"MalformedVerdict", "Invalid"}
    /\ comp[r] \in DOMAIN completions
    /\ LET row == [completions[comp[r]] EXCEPT
                      !.validation_response = VerdictOf(judge[r].result.val).reasoning]
           s   == [session[r] EXCEPT !.in_txn = TRUE,
                                     !.writes = Append(@, UpdateCompletion(comp[r], row))]
           out == get_async_session_exit(DB, s, FALSE)
       IN  /\ children' = out.db.children
           /\ completions' = out.db.completions
           /\ session' = [session EXCEPT ![r] = out.session]
    /\ response' = [response EXCEPT ![r] =
                       [state |-> "Rejected", error |-> "", tokens_awarded |-> 0]]
    /\ judge' = [judge EXCEPT ![r] = NoJudge]
    /\ lock' = Released(r)
    /\ req' = [req EXCEPT ![r] = NoReq]
    /\ pc' = [pc EXCEPT ![r] = "done"]
    /\ UNCHANGED <<client, comp, vp>>

\* step 6, valid = true: in one transaction, under the lock of the child's
\* row, the completion is marked and the balance re-read and credited
AwardTokens(r) ==
    /\ pc[r] = "judged"
    /\ Classify(judge[r].result) = "Valid"
    /\ comp[r] \in DOMAIN completions
    /\ RowLockFree(req[r].child_id)
    /\ LET c      == req[r].child_id
           reward == Activities[req[r].activity_id].tokens_reward
           row    == [completions[comp[r]] EXCEPT
                         !.validated = TRUE,
                         !.validation_response = VerdictOf(judge[r].result.val).reasoning,
                         !.tokens_awarded = reward]
           child  == [children[c] EXCEPT !.token_balance = @ + reward]
       IN  /\ lock' = [lock EXCEPT ![c] = r]
           /\ session' = [session EXCEPT ![r] =
                             [@ EXCEPT !.in_txn = TRUE,
                                       !.writes = << UpdateCompletion(comp[r], row),
                                                     UpdateChild(c, child) >>]]
    /\ pc' = [pc EXCEPT ![r] = "awarded"]
    /\ UNCHANGED <<client, children, completions, req, comp, judge, response, vp>>

\* the handler returns the result and get_async_session commits
ReturnResult(r) ==
    /\ pc[r] = "awarded"
    /\ LET out == get_async_session_exit(DB, session[r], FALSE)
       IN  /\ children' = out.db.children
           /\ completions' = out.db.completions
           /\ session' = [session EXCEPT ![r] = out.session]
    /\ response' = [response EXCEPT ![r] =
                       [state |-> "Validated", error |-> "",
                        tokens_awarded |-> Activities[req[r].activity_id].tokens_reward]]
    /\ judge' = [judge EXCEPT ![r] = NoJudge]
    /\ lock' = Released(r)
    /\ req' = [req EXCEPT ![r] = NoReq]
    /\ pc' = [pc EXCEPT ![r] = "done"]
    /\ UNCHANGED <<client, comp, vp>>

Next ==
    \/ register_child
    \/ \E r \in Requests, c \in ChildIds, a \in 1..(Len(Activities) + 1) :
           LoadRecords(r, c, a)
    \/ \E r \in Requests : CreateCompletion(r)
    \/ \E r \in Requests : CallJudge(r)
    \/ \E r \in Requests, api \in ApiOutcomes, content \in JudgeReplies :
           JudgeReturns(r, api, content)
    \/ \E r \in Requests : FailSubmission(r)
    \/ \E r \in Requests : RejectSubmission(r)
    \/ \E r \in Requests : AwardTokens(r)
    \/ \E r \in Requests : ReturnResult(r)

Spec == Init /\ [][Next]_vars

(***************************************************************************)
(* One call of validate_photo, a line at a time, on every text of          *)
(* RawTexts.                                                               *)
(***************************************************************************)

ParserInit ==
    /\ client \in Clients
    /\ PipelineInit
    /\ vp \in { [pc |-> "called", api |-> a, content |-> t, text |-> <<>>,
                 result |-> NoJudge.result] : a \in ApiOutcomes, t \in RawTexts }

\* if not self.client: raise ValueError
VpCheckClient ==
    /\ vp.pc = "called"
    /\ vp' = IF client = "None"
             THEN [vp EXCEPT !.pc = "done", !.result = Raised(MissingCredentialError)]
             ELSE [vp EXCEPT !.pc = "requesting"]
    /\ UNCHANGED <<client, pipelineVars>>

\* completion = self.client.chat.completions.create(...); text = ...content
VpCreate ==
    /\ vp.pc = "requesting"
    /\ vp' = IF vp.api # "ok"
             THEN [vp EXCEPT !.pc = "done", !.result = Raised(vp.api)]
             ELSE [vp EXCEPT !.pc = "received", !.text = vp.content]
    /\ UNCHANGED <<client, pipelineVars>>

\* if text.startswith(fence): ...
VpStripFence ==
    /\ vp.pc = "received"
    /\ vp' = [vp EXCEPT !.pc = "stripped", !.text = StripFence(vp.text)]
    /\ UNCHANGED <<client, pipelineVars>>

\* return json.loads(text.strip())
VpLoads ==
    /\ vp.pc = "stripped"
    /\ vp' = [vp EXCEPT !.pc = "done", !.result = json_loads(strip(vp.text))]
    /\ UNCHANGED <<client, pipelineVars>>

ParserNext == VpCheckClient \/ VpCreate \/ VpStripFence \/ VpLoads

ParserSpec == ParserInit /\ [][ParserNext]_vars

\* the call, line by line, ends as validate_photo does
StepwiseAgrees ==
    vp.pc = "done" => vp.result = validate_photo(client, vp.api, vp.content)

(***************************************************************************)
(* Properties.                                                             *)
(***************************************************************************)

\* the sum of tokens_awarded over the rows of child c
RECURSIVE SumAwarded(_, _)
SumAwarded(rows, c) ==
    IF rows = <<>> THEN 0
    ELSE (IF Head(rows).child_id = c THEN Head(rows).tokens_awarded ELSE 0)
         + SumAwarded(Tail(rows), c)

\* the sum of tokens_awarded over the responses of the requests in S
RECURSIVE SumResponses(_)
SumResponses(S) ==
    IF S = {} THEN 0
    ELSE LET r == CHOOSE x \in S : TRUE
         IN  response[r].tokens_awarded + SumResponses(S \ {r})

\* the requests answered Validated for child c
ValidatedFor(c) ==
    {r \in Requests : /\ pc[r] = "done" /\ response[r].state = "Validated"
                      /\ comp[r] \in DOMAIN completions
                      /\ completions[comp[r]].child_id = c}

\* the replies whose body is not JSON or has no boolean "valid"
MalformedRaws ==
    MalformedBodies
    \cup {Fenced(tag, b) : tag \in FenceTags, b \in MalformedBodies}
    \cup {Chatty(p, b) : p \in Proses, b \in MalformedBodies}

\* the call reached the judge and the judge answered
Answered == vp.pc = "done" /\ client = "Groq" /\ vp.api = "ok"

\* C1: in every reachable state the committed token_balance of every child
\* equals the sum of tokens_awarded over that child's committed completions
\* (0 and none for a child not registered yet).
C1_BalanceIsSumOfAwards ==
    \A c \in ChildIds : children[c].token_balance = SumAwarded(completions, c)

\* a child with a credited completion and with one that failed or was rejected
C1_Witness ==
    \E c \in ChildIds :
        /\ children[c].token_balance > 0
        /\ \E i \in DOMAIN completions :
               completions[i].child_id = c /\ completions[i].validated
        /\ \E r \in Requests :
               /\ pc[r] = "done" /\ response[r].state = "Failed"
               /\ comp[r] \in DOMAIN completions
               /\ completions[comp[r]].child_id = c
               /\ ~completions[comp[r]].validated

\* C2: every completion row, committed or written in an open transaction,
\* with tokens_awarded > 0 is validated; a row is created unvalidated with
\* tokens_awarded = 0; and no step raises a row's tokens_awarded above 0
\* without the row being validated after that step.
C2_AwardImpliesValidated ==
    [][ /\ \A i \in DOMAIN completions' :
               /\ completions'[i].tokens_awarded > 0 => completions'[i].validated
               /\ i \notin DOMAIN completions =>
                      /\ ~completions'[i].validated
                      /\ completions'[i].tokens_awarded = 0
        /\ \A r \in Requests : \A k \in DOMAIN session'[r].writes :
               session'[r].writes[k].row.tokens_awarded > 0
                   => session'[r].writes[k].row.validated ]_vars

\* a committed row that carries tokens, and is validated
C2_Witness ==
    \E i \in DOMAIN completions :
        completions[i].tokens_awarded > 0 /\ completions[i].validated

\* C3: whenever two submissions for the same child have both been answered
\* Validated with a reward of 2 each, the child's balance is 4 above what the
\* other validated submissions for that child credited: both increments
\* landed, under every interleaving of the two requests.
C3_BothIncrementsLand ==
    \A c \in ChildIds : \A r1, r2 \in ValidatedFor(c) :
        (r1 # r2 /\ response[r1].tokens_awarded = 2 /\ response[r2].tokens_awarded = 2)
            => children[c].token_balance
                   = 4 + SumResponses(ValidatedFor(c) \ {r1, r2})

\* both requests loaded the child with the same balance (they were in flight
\* together), both were validated with reward 2, and the balance is base + 4
C3_Witness ==
    \E c \in ChildIds : \E r1, r2 \in ValidatedFor(c) :
        /\ r1 # r2
        /\ response[r1].tokens_awarded = 2 /\ response[r2].tokens_awarded = 2
        /\ session[r1].child_balance = session[r2].child_balance
        /\ children[c].token_balance = session[r1].child_balance + 4

\* C4: when validate_photo raises for a missing API key, the completion the
\* submission created is still in the store, unvalidated with tokens_awarded
\* = 0, the child's balance is what it was when the request loaded it, and
\* the caller gets the retryable ServiceUnavailable error (state Failed).
C4_FailedSubmissionIsKept ==
    \A r \in Requests :
        /\ (pc[r] = "judged" /\ client = "None")
               => /\ judge[r].result = Raised(MissingCredentialError)
                  /\ Classify(judge[r].result) = "ServiceUnavailable"
        /\ (pc[r] = "done" /\ comp[r] # 0 /\ client = "None")
               => /\ response[r] = [state |-> "Failed", error |-> "ServiceUnavailable",
                                    tokens_awarded |-> 0]
                  /\ comp[r] \in DOMAIN completions
                  /\ ~completions[comp[r]].validated
                  /\ completions[comp[r]].tokens_awarded = 0
                  /\ children[completions[comp[r]].child_id].token_balance
                         = session[r].child_balance

\* a submission that failed for the missing key, its record kept
C4_Witness ==
    \E r \in Requests :
        /\ client = "None" /\ pc[r] = "done"
        /\ response[r].state = "Failed" /\ response[r].error = "ServiceUnavailable"
        /\ comp[r] \in DOMAIN completions
        /\ ~completions[comp[r]].validated
        /\ completions[comp[r]].tokens_awarded = 0

\* C5: a reply that is one verdict object in a fenced block, with or without
\* a language tag of any kind after the opening fence, yields the verdict of
\* the enclosed object.
C5_FencedVerdictIsParsed ==
    \A o \in VerdictObjects : \A tag \in FenceTags :
        (Answered /\ vp.content = Fenced(tag, o.text))
            => /\ vp.result.kind = "return"
               /\ VerdictOf(vp.result.val)
                      = [ok |-> TRUE, valid |-> o.valid, reasoning |-> o.reasoning]

\* C6: a reply without a fence that is prose followed by one verdict object
\* yields the verdict of that object.
C6_ProseThenVerdictIsParsed ==
    \A o \in VerdictObjects : \A p \in Proses :
        (Answered /\ vp.content = Chatty(p, o.text))
            => /\ vp.result.kind = "return"
               /\ VerdictOf(vp.result.val)
                      = [ok |-> TRUE, valid |-> o.valid, reasoning |-> o.reasoning]

\* C7: for a reply that is not JSON after the fence is stripped, or is JSON
\* without a boolean "valid" (absent, or not a boolean), the parsing step
\* raises the malformed-verdict error instead of returning a decision.
C7_MalformedIsSignalled ==
    (Answered /\ vp.content \in MalformedRaws)
        => /\ vp.result.kind = "raise"
           /\ IsInstance(vp.result.exc, json_loads_error)
           /\ Classify(vp.result) = "MalformedVerdict"

C10_NoTransactionWhileJudging ==
    \A r \in Requests :
        pc[r] = "judging"
            => /\ ~session[r].in_txn
               /\ session[r].writes = <<>>
               /\ \A c \in ChildIds : lock[c] # r

\* one request waits for the judge while another holds the lock of the same
\* child's row in an open transaction
C10_Witness ==
    \E r1, r2 \in Requests :
        /\ pc[r1] = "judging"
        /\ pc[r2] = "awarded" /\ session[r2].in_txn
        /\ req[r1].child_id = req[r2].child_id
        /\ lock[req[r2].child_id] = r2

=============================================================================
